---- MODULE Spec2Model ----
(***************************************************************************)
(* Model of main.py: merge a directory of PDF files into one document      *)
(* (merge_pdf_list), then stamp a footer with running page numbers onto    *)
(* every page and attach one outline entry per source file                 *)
(* (add_page_numbers), driven by the __main__ block.                       *)
(*                                                                         *)
(* A PDF file on disk is a record [kind, pages, outline].  The PDF toolkit *)
(* calls (PdfReader, PdfMerger, PdfWriter, reportlab canvas) are taken to  *)
(* do what their documentation says; every call that touches the file      *)
(* system may also raise, which is the parameter f of the actions.  An     *)
(* exception is never caught in main.py, so a raise ends the process       *)
(* (pc = "failed") with the files as they are at that moment.              *)
(***************************************************************************)
EXTENDS Integers, Sequences, FiniteSets, TLC

\* Bounds of the model: number of *.pdf files in the input directory and
\* number of pages of one source file.
MaxFiles == 3
MaxPages == 3

\* Values of --footer-text.
FooterTexts == {"Draft", "Internal"}

VARIABLES
    srcs,           \* page counts of the files input_path.glob("*.pdf") yields, in glob order
    with_blank,     \* merge_pdf_list's with_blank (args.add_blank)
    text,           \* args.footer_text
    outInit,        \* the file at args.output_path before the run
    pc,             \* position of the process
    fault,          \* the exception raised, "none" while none was
    bookmarks,      \* merge_pdf_list: bookmarks
    mergerPages,    \* merge_pdf_list: merger.pages
    idx,            \* merge_pdf_list: 1-based position of the glob iteration
    n,              \* add_page_numbers: n
    p,              \* add_page_numbers: p, the number of pages composited so far
    writerPages,    \* add_page_numbers: writer.pages
    writerOutline,  \* add_page_numbers: outline items added to writer
    blankFile,      \* the file "--tmp.pdf"
    overlayFile,    \* the file "__tmp.pdf"
    mergedFile,     \* the file "./tmp.pdf"
    outFile         \* the file at args.output_path

vars == <<srcs, with_blank, text, outInit, pc, fault, bookmarks, mergerPages, idx,
          n, p, writerPages, writerOutline, blankFile, overlayFile, mergedFile, outFile>>

inputs == <<srcs, with_blank, text, outInit>>

----------------------------------------------------------------------------
\* Files

Absent == [kind |-> "absent", pages |-> <<>>, outline |-> <<>>]

\* A file opened with "wb" (created or truncated) whose write did not complete.
Partial == [kind |-> "partial", pages |-> <<>>, outline |-> <<>>]

\* A document some earlier program left at the output path.
OldDoc == [kind |-> "old", pages |-> <<>>, outline |-> <<>>]

Doc(pages, outline) == [kind |-> "doc", pages |-> pages, outline |-> outline]

\* os.remove(path)
Removed(file) == Absent

----------------------------------------------------------------------------
\* Pure parts

RECURSIVE SeqsUpTo(_, _)
SeqsUpTo(S, len) ==
    IF len = 0 THEN {<<>>}
    ELSE LET shorter == SeqsUpTo(S, len - 1)
         IN  shorter \cup {Append(s, x) : s \in {t \in shorter : Len(t) = len - 1}, x \in S}

\* path.name of the i-th file of the glob
Name(i) == ToString(i) \o ".pdf"

\* The pages PdfReader finds in the i-th source file.
SourcePages(i) == [k \in 1..srcs[i] |-> <<i, k>>]

\* The one page of create_blank_page's document.
BlankPage == <<0, 0>>

\* A bookmark counted from 1 instead of from 0.
NextBookmarkOneBased(pages, name) == <<Len(pages) + 1, name>>

\* bookmarks.append((len(merger.pages), path.name))
NextBookmark(pages, name) == <<Len(pages), name>>

\* The separator page left out.
AppendBlankSkipped(pages, wb) == pages

\* if with_blank: merger.append(fb)
AppendBlank(pages, wb) == IF wb THEN Append(pages, BlankPage) ELSE pages

\* text + f" page {i} of {num}"
Caption(txt, i, num) == txt \o " page " \o ToString(i) \o " of " \o ToString(num)

\* The loop written as range(num): captions counted from 0.
create_page_pdf_range0(num, txt) == [i \in 1..num |-> Caption(txt, i - 1, num)]

\* create_page_pdf: one page per i in range(1, num + 1)
create_page_pdf(num, txt) == [i \in 1..num |-> Caption(txt, i, num)]

\* page.merge_page(number_layer)
merge_page(page, number_layer) == [content |-> page, footer |-> number_layer]

\* The guard written as >= 0: an empty document is written too.
ShouldWriteAlways(pages) == Len(pages) >= 0

\* if len(writer.pages) > 0
ShouldWrite(pages) == Len(pages) > 0

----------------------------------------------------------------------------
Init ==
    /\ srcs \in SeqsUpTo(0..MaxPages, MaxFiles)
    /\ with_blank \in BOOLEAN
    /\ text \in FooterTexts
    /\ outInit \in {Absent, OldDoc}
    /\ pc = "start"
    /\ fault = "none"
    /\ bookmarks = <<>>
    /\ mergerPages = <<>>
    /\ idx = 1
    /\ n = 0
    /\ p = 0
    /\ writerPages = <<>>
    /\ writerOutline = <<>>
    /\ blankFile = Absent
    /\ overlayFile = Absent
    /\ mergedFile = Absent
    /\ outFile = outInit

\* An uncaught exception: the interpreter prints the traceback and exits.
Raise(f) == pc' = "failed" /\ fault' = f

\* merge_pdf_list, up to the loop: the empty list and merger, and the blank page file.
MergeInit(f) ==
    /\ pc = "start"
    /\ bookmarks' = <<>>
    /\ mergerPages' = <<>>
    /\ idx' = 1
    /\ IF with_blank
       THEN \/ f = "none" /\ blankFile' = Doc(<<BlankPage>>, <<>>)
               /\ pc' = "merge_loop" /\ fault' = fault
            \/ f = "open" /\ blankFile' = blankFile /\ Raise(f)
            \/ f = "write" /\ blankFile' = Partial /\ Raise(f)
       ELSE f = "none" /\ blankFile' = blankFile /\ pc' = "merge_loop" /\ fault' = fault
    /\ UNCHANGED <<inputs, n, p, writerPages, writerOutline, overlayFile, mergedFile, outFile>>

\* The merge written out after every file instead of after the loop.
MergeFileWritesEachTime(f) ==
    /\ pc = "merge_loop"
    /\ idx <= Len(srcs)
    /\ bookmarks' = Append(bookmarks, NextBookmark(mergerPages, Name(idx)))
    /\ \/ f = "none"
          /\ mergerPages' = AppendBlank(mergerPages \o SourcePages(idx), with_blank)
          /\ mergedFile' = Doc(mergerPages', bookmarks')
          /\ idx' = idx + 1
          /\ UNCHANGED <<pc, fault>>
       \/ f = "read"
          /\ Raise(f)
          /\ UNCHANGED <<mergerPages, idx, mergedFile>>
    /\ UNCHANGED <<inputs, n, p, writerPages, writerOutline,
                   blankFile, overlayFile, outFile>>

\* One iteration of the loop over the glob: the bookmark, then the file's pages,
\* then the blank page.
MergeFile(f) ==
    /\ pc = "merge_loop"
    /\ idx <= Len(srcs)
    /\ bookmarks' = Append(bookmarks, NextBookmark(mergerPages, Name(idx)))
    /\ \/ f = "none"
          /\ mergerPages' = AppendBlank(mergerPages \o SourcePages(idx), with_blank)
          /\ idx' = idx + 1
          /\ UNCHANGED <<pc, fault>>
       \/ f = "read"
          /\ Raise(f)
          /\ UNCHANGED <<mergerPages, idx>>
    /\ UNCHANGED <<inputs, n, p, writerPages, writerOutline,
                   blankFile, overlayFile, mergedFile, outFile>>

\* with open(dst_pdf_path, "wb") as fw: merger.write(fw)
MergeWrite(f) ==
    /\ pc = "merge_loop"
    /\ idx > Len(srcs)
    /\ \/ f = "none" /\ mergedFile' = Doc(mergerPages, bookmarks)
          /\ pc' = "merge_cleanup" /\ fault' = fault
       \/ f = "open" /\ mergedFile' = mergedFile /\ Raise(f)
       \/ f = "write" /\ mergedFile' = Partial /\ Raise(f)
    /\ UNCHANGED <<inputs, bookmarks, mergerPages, idx, n, p, writerPages, writerOutline,
                   blankFile, overlayFile, outFile>>

\* if with_blank: os.remove(tmp_path); return bookmarks
MergeCleanup(f) ==
    /\ pc = "merge_cleanup"
    /\ f = "none"
    /\ blankFile' = IF with_blank THEN Removed(blankFile) ELSE blankFile
    /\ pc' = "annotate"
    /\ UNCHANGED <<inputs, fault, bookmarks, mergerPages, idx, n, p, writerPages,
                   writerOutline, overlayFile, mergedFile, outFile>>

\* add_page_numbers, up to the page loop: the writer, the reader of pdf_path, n,
\* and the overlay document create_page_pdf saves to "__tmp.pdf".
AnnotateOpen(f) ==
    /\ pc = "annotate"
    /\ writerPages' = <<>>
    /\ writerOutline' = <<>>
    /\ p' = 0
    /\ \/ f = "none"
          /\ n' = Len(mergedFile.pages)
          /\ overlayFile' = Doc(create_page_pdf(n', text), <<>>)
          /\ pc' = "composite" /\ fault' = fault
       \/ f = "open"
          /\ UNCHANGED <<n, overlayFile>>
          /\ Raise(f)
       \/ f = "overlay"
          /\ n' = Len(mergedFile.pages)
          /\ overlayFile' \in {overlayFile, Partial}
          /\ Raise(f)
    /\ UNCHANGED <<inputs, bookmarks, mergerPages, idx, blankFile, mergedFile, outFile>>

\* One iteration of for p in range(n).
CompositePage(f) ==
    /\ pc = "composite"
    /\ p < n
    /\ \/ f = "none"
          /\ writerPages' = Append(writerPages,
                                   merge_page(mergedFile.pages[p + 1], overlayFile.pages[p + 1]))
          /\ p' = p + 1
          /\ UNCHANGED <<pc, fault>>
       \/ f = "composite"
          /\ Raise(f)
          /\ UNCHANGED <<writerPages, p>>
    /\ UNCHANGED <<inputs, bookmarks, mergerPages, idx, n, writerOutline,
                   blankFile, overlayFile, mergedFile, outFile>>

\* for p_num, label in bookmarks: writer.add_outline_item(title=label, page_number=p_num)
AddOutline(f) ==
    /\ pc = "composite"
    /\ p >= n
    /\ f = "none"
    /\ writerOutline' = writerOutline \o bookmarks
    /\ pc' = "write"
    /\ UNCHANGED <<inputs, fault, bookmarks, mergerPages, idx, n, p, writerPages,
                   blankFile, overlayFile, mergedFile, outFile>>

\* if len(writer.pages) > 0: with open(new_path, "wb") as f: writer.write(f)
WriteOutput(f) ==
    /\ pc = "write"
    /\ IF ShouldWrite(writerPages)
       THEN \/ f = "none" /\ outFile' = Doc(writerPages, writerOutline)
               /\ pc' = "remove_overlay" /\ fault' = fault
            \/ f = "open" /\ outFile' = outFile /\ Raise(f)
            \/ f = "write" /\ outFile' = Partial /\ Raise(f)
       ELSE f = "none" /\ outFile' = outFile /\ pc' = "remove_overlay" /\ fault' = fault
    /\ UNCHANGED <<inputs, bookmarks, mergerPages, idx, n, p, writerPages, writerOutline,
                   blankFile, overlayFile, mergedFile>>

\* os.remove(tmp), the last statement of add_page_numbers
RemoveOverlay(f) ==
    /\ pc = "remove_overlay"
    /\ f = "none"
    /\ overlayFile' = Removed(overlayFile)
    /\ pc' = "driver_cleanup"
    /\ UNCHANGED <<inputs, fault, bookmarks, mergerPages, idx, n, p, writerPages,
                   writerOutline, blankFile, mergedFile, outFile>>

\* The driver without its os.remove(tmp_path).
DriverCleanupKeepsFile(f) ==
    /\ pc = "driver_cleanup"
    /\ f = "none"
    /\ pc' = "finished"
    /\ UNCHANGED <<inputs, fault, bookmarks, mergerPages, idx, n, p, writerPages,
                   writerOutline, blankFile, overlayFile, mergedFile, outFile>>

\* __main__: os.remove(tmp_path), then the "finished" message
DriverCleanup(f) ==
    /\ pc = "driver_cleanup"
    /\ f = "none"
    /\ mergedFile' = Removed(mergedFile)
    /\ pc' = "finished"
    /\ UNCHANGED <<inputs, fault, bookmarks, mergerPages, idx, n, p, writerPages,
                   writerOutline, blankFile, overlayFile, outFile>>

Faults == {"none", "open", "read", "write", "overlay", "composite"}

Step(f) ==
    \/ MergeInit(f)
    \/ MergeFile(f)
    \/ MergeWrite(f)
    \/ MergeCleanup(f)
    \/ AnnotateOpen(f)
    \/ CompositePage(f)
    \/ AddOutline(f)
    \/ WriteOutput(f)
    \/ RemoveOverlay(f)
    \/ DriverCleanup(f)

Next == \E f \in Faults : Step(f)

Spec == Init /\ [][Next]_vars

----------------------------------------------------------------------------
\* What the claims speak of

Separator == IF with_blank THEN 1 ELSE 0

RECURSIVE SumPages(_)
SumPages(k) == IF k = 0 THEN 0 ELSE SumPages(k - 1) + srcs[k]

\* Pages of the merged document: every source page, and one separator per source.
ExpectedPages == SumPages(Len(srcs)) + Separator * Len(srcs)

\* Pages appended for the documents before the i-th.
RECURSIVE CumBefore(_)
CumBefore(i) == IF i = 1 THEN 0 ELSE CumBefore(i - 1) + srcs[i - 1] + Separator

\* The complete merge of the first k sources.
RECURSIVE AllPages(_)
AllPages(k) ==
    IF k = 0 THEN <<>>
    ELSE AllPages(k - 1) \o [j \in 1..srcs[k] |-> <<k, j>>]
                         \o (IF with_blank THEN << <<0, 0>> >> ELSE <<>>)

FooterOf(i, total) == text \o " page " \o ToString(i) \o " of " \o ToString(total)

Exited == pc \in {"failed", "finished"}
MergeReturned == pc \in {"annotate", "composite", "write", "remove_overlay",
                         "driver_cleanup", "finished"}
NoTempFiles ==
    /\ blankFile.kind = "absent"
    /\ overlayFile.kind = "absent"
    /\ mergedFile.kind = "absent"

C2_BookmarksCumulative ==
    /\ \A i \in 1..Len(bookmarks) : bookmarks[i] = <<CumBefore(i), Name(i)>>
    /\ MergeReturned => Len(bookmarks) = Len(srcs)
    /\ (MergeReturned /\ srcs = <<2, 3>>) =>
          bookmarks = IF with_blank THEN << <<0, "1.pdf">>, <<3, "2.pdf">> >>
                                    ELSE << <<0, "1.pdf">>, <<2, "2.pdf">> >>

C2_Witness ==
    /\ pc = "annotate"
    /\ srcs = <<2, 3>>
    /\ with_blank
    /\ bookmarks = << <<0, "1.pdf">>, <<3, "2.pdf">> >>

\* C3: after any number of iterations of the merge loop the bookmark list is
\* strictly increasing in pageIndex and holds one entry per source merged so far.
C3_BookmarksStrictlyIncreasing ==
    pc = "merge_loop" =>
        /\ Len(bookmarks) = idx - 1
        /\ \A i, j \in 1..Len(bookmarks) : i < j => bookmarks[i][1] < bookmarks[j][1]

\* C4: when the process has ended, by success or by a raise at any step, none of
\* "--tmp.pdf", "__tmp.pdf" and "./tmp.pdf" is on disk.
C4_NoTempFilesAtExit == Exited => NoTempFiles

\* C5: when a run has failed, the file at the output path is as it was before the
\* run: absent if it was absent, unchanged if it was there, never partly written.
C5_FailureLeavesOutput == pc = "failed" => outFile = outInit

\* C6: with no PDF file in the input directory, merge_pdf_list returns no bookmark
\* and writes a document of zero pages, add_page_numbers finds n = 0, raises
\* nothing of its own (only an I/O call can fail, and every step can go on), and
\* the output path is neither created nor modified.
C6_EmptyDirectory ==
    srcs = <<>> =>
        /\ bookmarks = <<>>
        /\ mergedFile.kind = "doc" => mergedFile.pages = <<>>
        /\ MergeReturned => (n = 0 /\ writerPages = <<>> /\ writerOutline = <<>>)
        /\ outFile = outInit
        /\ pc = "failed" => fault \in {"open", "write", "overlay"}
        /\ ~Exited => ENABLED Step("none")

C6_Witness ==
    /\ srcs = <<>>
    /\ pc = "finished"
    /\ fault = "none"
    /\ outInit = Absent
    /\ outFile = Absent

\* C7 as stated: every completed run, an empty input directory included, leaves
\* the final document at the output path and no temporary file.
C7_SuccessLeavesFinalDocument ==
    pc = "finished" =>
        /\ outFile.kind = "doc"
        /\ outFile.pages = writerPages
        /\ NoTempFiles

\* C7 as amended: a completed run leaves no temporary file; when the merged
\* document has at least one page the final document (all composited pages, all
\* bookmarks) is at the output path, and when it has none the output path is as
\* it was before the run.
C7_SuccessAmended ==
    pc = "finished" =>
        /\ NoTempFiles
        /\ IF n > 0
           THEN outFile = Doc(writerPages, bookmarks) /\ Len(writerPages) = n
           ELSE outFile = outInit

C7_Witness ==
    /\ pc = "finished"
    /\ outInit = OldDoc
    /\ outFile.kind = "doc"
    /\ Len(outFile.pages) = 4
    /\ NoTempFiles

\* C8: for an input document of N pages the overlay has exactly N pages, the i-th
\* reading "<footer-text> page i of N", and the i-th composited page is input
\* page i under overlay page i.
C8_FooterCaptions ==
    /\ pc \in {"composite", "write", "remove_overlay"} =>
          /\ overlayFile.kind = "doc"
          /\ Len(overlayFile.pages) = n
          /\ \A i \in 1..n : overlayFile.pages[i] = FooterOf(i, n)
    /\ pc \in {"composite", "write", "remove_overlay", "driver_cleanup"} =>
          /\ n = Len(mergedFile.pages)
          /\ \A i \in 1..Len(writerPages) :
                writerPages[i] = [content |-> mergedFile.pages[i], footer |-> FooterOf(i, n)]
    /\ pc \in {"write", "remove_overlay", "driver_cleanup", "finished"} =>
          Len(writerPages) = n
    /\ outFile.kind = "doc" =>
          \A i \in 1..Len(outFile.pages) :
              outFile.pages[i].footer = FooterOf(i, Len(outFile.pages))

C8_Witness ==
    /\ pc = "finished"
    /\ text = "Draft"
    /\ n = 3
    /\ outFile.kind = "doc"
    /\ outFile.pages[1].footer = "Draft page 1 of 3"
    /\ outFile.pages[3].footer = "Draft page 3 of 3"

\* C9: while the merge loop runs, and after a source file could not be read, the
\* merge destination has not been opened for writing; a document at the
\* destination is the complete merge of all sources.
C9_NoPartialMerge ==
    /\ pc = "merge_loop" => mergedFile.kind = "absent"
    /\ (pc = "failed" /\ fault = "read") => mergedFile.kind = "absent"
    /\ mergedFile.kind = "doc" => mergedFile.pages = AllPages(Len(srcs))

C9_Witness ==
    /\ pc = "failed"
    /\ fault = "read"
    /\ Len(srcs) = 3
    /\ idx = 2
    /\ Len(mergerPages) > 0
    /\ mergedFile.kind = "absent"

\* C10: every bookmark attached to the final document points at one of its pages:
\* 0 <= pageIndex < N.
C10_BookmarksPointAtPages ==
    pc \in {"write", "remove_overlay", "driver_cleanup", "finished"} =>
        \A i \in 1..Len(writerOutline) :
            0 <= writerOutline[i][1] /\ writerOutline[i][1] < Len(writerPages)

====
